---- MODULE Spec2Model ----
(***************************************************************************)
(* Drive-by-wire node (ros/src/twist_controller/dbw_node.py): the periodic *)
(* loop of DBWNode, its three subscriber callbacks and publish(), together *)
(* with the Controller it drives (LowPassFilter, PIDController,            *)
(* YawController).  twist_controller.py is not among the sources, so the   *)
(* Controller is written from sections 4.1-4.4 of the design text.         *)
(*                                                                         *)
(* Reals are fixed point integers:                                         *)
(*   velocities                0.1 m/s      yaw rates        0.1 rad/s     *)
(*   time                      0.1 s        PID integral     0.01 m        *)
(*   accelerations, angles, pedal fractions 0.001                          *)
(*   brake torque              1 N.m                                       *)
(* A float that may be non-finite is [finite |-> BOOLEAN, val |-> Int].    *)
(***************************************************************************)
EXTENDS Integers, Sequences, FiniteSets, TLC

\* ---------------------------------------------------------------- bounds
\* Loop iterations explored.
MaxTicks == 2

\* ------------------------------------------- parameters, __init__ 38-47
vehicle_mass == 1736
fuel_capacity == 135
brake_deadband == 100
decel_limit == -5000
accel_limit == 1000
wheel_radius == 2413
wheel_base == 2850
steer_ratio == 148
max_lat_accel == 3000
max_steer_angle == 8000

\* rospy.Rate(2): the period of the loop, 0.5 s.
LoopPeriod == 5

\* ---------------------------------------------------------- arithmetic
Abs(x) == IF x < 0 THEN -x ELSE x

Max(a, b) == IF a >= b THEN a ELSE b

Min(a, b) == IF a <= b THEN a ELSE b

\* Division rounding towards zero, b > 0.
Quot(a, b) == IF a >= 0 THEN a \div b ELSE -((-a) \div b)

Clamp(x, lo, hi) == Max(lo, Min(hi, x))

Fin(v) == [finite |-> TRUE, val |-> v]

NaN == [finite |-> FALSE, val |-> 0]

\* Python's None and a present value.
None == <<>>

Some(m) == <<m>>

\* ----------------------------------------------------- parms, 56-64
parms_wrong_steer_limit ==
    [wheel_base      |-> wheel_base,
     steer_ratio     |-> steer_ratio,
     min_velocity    |-> 0,
     max_lat_accel   |-> max_lat_accel,
     max_steer_angle |-> steer_ratio * 100,
     decel_limit     |-> decel_limit,
     accel_limit     |-> accel_limit]

parms_wrong_accel_limit ==
    [wheel_base      |-> wheel_base,
     steer_ratio     |-> steer_ratio,
     min_velocity    |-> 0,
     max_lat_accel   |-> max_lat_accel,
     max_steer_angle |-> max_steer_angle,
     decel_limit     |-> decel_limit,
     accel_limit     |-> max_steer_angle]

parms ==
    [wheel_base      |-> wheel_base,
     steer_ratio     |-> steer_ratio,
     min_velocity    |-> 0,
     max_lat_accel   |-> max_lat_accel,
     max_steer_angle |-> max_steer_angle,
     decel_limit     |-> decel_limit,
     accel_limit     |-> accel_limit]

\* ------------------------------------------------ LowPassFilter (4.1)
\* alpha = time_constant / (time_constant + sample_period)
TimeConstant == 5

SamplePeriod == LoopPeriod

\* state: [ready, last]
LowPassFilter(lpf, sample) ==
    IF ~lpf.ready
    THEN [ready |-> TRUE, last |-> sample]
    ELSE [ready |-> TRUE,
          last  |-> Quot(TimeConstant * sample + SamplePeriod * lpf.last,
                         TimeConstant + SamplePeriod)]

\* ------------------------------------------------ PIDController (4.2)
\* Gains in tenths: Kp = 1.0, Ki = 0.1, Kd = 0.1.
Kp == 10

Ki == 1

Kd == 1

GainDen == 10

PIDInit == [integral |-> 0, prev_error |-> 0, output |-> 0]

\* reset(): zero the integral and the previous error.
PIDReset(pid) == [pid EXCEPT !.integral = 0, !.prev_error = 0]

\* step(error, dt), dt > 0.  error in 0.1 m/s, dt in 0.1 s, output in 0.001.
PIDStep(pid, error, dt, min_output, max_output) ==
    LET integral   == pid.integral + error * dt
        derivative == Quot(1000 * (error - pid.prev_error), dt)
        raw_output == Quot(Kp * 100 * error + Ki * 10 * integral + Kd * derivative,
                           GainDen)
        output     == Clamp(raw_output, min_output, max_output)
    IN  [integral   |-> IF output # raw_output THEN pid.integral ELSE integral,
         prev_error |-> error,
         output     |-> output]

\* ------------------------------------------------ YawController (4.3)
HalfPi == 1571

\* atan on 0.001 fixed point: x/(1+0.28 x^2) for |x| <= 1, and
\* sign(x) pi/2 - x/(x^2+0.28) beyond (error below 0.005 rad).
Atan(x) ==
    LET a  == Abs(x)
        sq == Quot(a * Quot(a, 10), 100)
        r  == IF a <= 1000
              THEN Quot(a * 1000, 1000 + Quot(280 * sq, 1000))
              ELSE HalfPi - Quot(a * 1000, sq + 280)
    IN  IF x < 0 THEN -r ELSE r

\* get_steering(target_linear_velocity, target_angular_velocity,
\*              current_linear_velocity) -> steering angle, 0.001 rad.
\* A zero denominator (min_velocity is 0.) is the float limit: no bound on the
\* yaw rate, a saturated angle for a non-zero yaw rate, and no curvature for a
\* zero yaw rate (section 8 expects steer = 0 at target 0 / angular 0).
GetSteering(p, tlv, tav, clv) ==
    LET vcur  == Max(clv, p.min_velocity)
        yaw   == IF vcur = 0 THEN tav
                 ELSE LET max_yaw_rate == Quot(p.max_lat_accel, vcur * 10)
                      IN  Clamp(tav, -max_yaw_rate, max_yaw_rate)
        vtgt  == Max(tlv, p.min_velocity)
        angle == IF vtgt = 0
                 THEN (IF yaw > 0 THEN HalfPi ELSE IF yaw < 0 THEN -HalfPi ELSE 0)
                 ELSE Atan(Quot(p.wheel_base * Quot(1000 * yaw, vtgt), 1000))
    IN  Clamp(Quot(angle * p.steer_ratio, 10), -p.max_steer_angle, p.max_steer_angle)

\* --------------------------------------------------- Controller (4.4)
\* Fuel density, kg per litre in 0.001.
FuelDensity == 2858

ControllerInit == [lpf |-> [ready |-> FALSE, last |-> 0], pid |-> PIDInit]

\* Torque holding the requested deceleration (0.001 m/s^2), N.m.
BrakeTorque(required_deceleration) ==
    LET mass == vehicle_mass + Quot(fuel_capacity * FuelDensity, 10000)
    IN  Quot(Quot(Abs(required_deceleration) * mass, 1000) * wheel_radius, 10000)

\* The split of the PID output into <<throttle, brake>>.
SplitOutput(p, pid_output) ==
    IF pid_output > 0
    THEN <<Quot(Clamp(pid_output, 0, p.accel_limit) * 1000, p.accel_limit), 0>>
    ELSE LET required_deceleration == Clamp(pid_output, p.decel_limit, 0)
         IN  <<0, IF Abs(required_deceleration) > brake_deadband
                  THEN BrakeTorque(required_deceleration)
                  ELSE 0>>

\* control(target_linear_velocity, target_angular_velocity,
\*         current_linear_velocity, dbw_enabled, dt)
\* -> [ok, result (<<throttle, brake, steer>>), controller (the new state)];
\* ok = FALSE is the InvalidInput failure.
Control(p, c, tlv, tav, clv, enabled, dt) ==
    IF ~enabled
    THEN [ok |-> TRUE, result |-> <<0, 0, 0>>,
          controller |-> [c EXCEPT !.pid = PIDReset(c.pid)]]
    ELSE IF ~(tlv.finite /\ tav.finite /\ clv.finite) \/ dt <= 0
    THEN [ok |-> FALSE, result |-> <<0, 0, 0>>, controller |-> c]
    ELSE LET lpf   == LowPassFilter(c.lpf, clv.val)
             pid   == PIDStep(c.pid, tlv.val - lpf.last, dt,
                              p.decel_limit, p.accel_limit)
             split == SplitOutput(p, pid.output)
             steer == GetSteering(p, tlv.val, tav.val, lpf.last)
         IN  [ok |-> TRUE, result |-> <<split[1], split[2], steer>>,
              controller |-> [lpf |-> lpf, pid |-> pid]]

\* ------------------------------------------------------------- DBWNode
VARIABLES current_command, current_velocity, dbw_enabled, oneshot, controller,
          throttle_pub, steer_pub, brake_pub,
          pc, linear_target, angular_target, linear_current,
          throttle, brake, steering,
          shutdown, ticks,
          received, after_shutdown

vars == <<current_command, current_velocity, dbw_enabled, oneshot, controller,
          throttle_pub, steer_pub, brake_pub,
          pc, linear_target, angular_target, linear_current,
          throttle, brake, steering, shutdown, ticks,
          received, after_shutdown>>

node   == <<current_command, current_velocity, dbw_enabled>>
pubs   == <<throttle_pub, steer_pub, brake_pub>>
locals == <<linear_target, angular_target, linear_current,
            throttle, brake, steering>>

\* History, not fields of the node: the last message each subscriber was
\* handed, and the control() and publish() calls made since the shutdown
\* signal.
history == <<received, after_shutdown>>

\* Messages the subscribers may receive: twist.linear.x / twist.angular.z of
\* /twist_cmd, twist.linear.x of /current_velocity.
TwistMsgs ==
    { [linear |-> Fin(40), angular |-> Fin(2)],
      [linear |-> Fin(0),  angular |-> Fin(-20)],
      [linear |-> NaN,     angular |-> Fin(0)] }

VelocityMsgs == { Fin(0), Fin(40) }

\* Elapsed time the controller works with: one loop period, or two when an
\* iteration overruns.
DtSet == { LoopPeriod, 2 * LoopPeriod }

\* A publisher: how many messages went out and the last one.
NoPub == [count |-> 0, last |-> None]

Publish(pub, value) == [count |-> pub.count + 1, last |-> Some(value)]

\* __init__, 67-70
Init ==
    /\ current_command = None
    /\ current_velocity = None
    /\ dbw_enabled = FALSE
    /\ oneshot = FALSE
    /\ controller = ControllerInit
    /\ throttle_pub = NoPub
    /\ steer_pub = NoPub
    /\ brake_pub = NoPub
    /\ pc = "while"
    /\ linear_target = Fin(0)
    /\ angular_target = Fin(0)
    /\ linear_current = Fin(0)
    /\ throttle = 0
    /\ brake = 0
    /\ steering = 0
    /\ shutdown = FALSE
    /\ ticks = 0
    /\ received = [twist |-> None, velocity |-> None]
    /\ after_shutdown = [control |-> 0, publish |-> 0]

\* 119-120
callback_twist_cmd_keep_first(msg) ==
    /\ current_command' = IF current_command = None THEN Some(msg)
                          ELSE current_command
    /\ received' = [received EXCEPT !.twist = Some(msg)]
    /\ UNCHANGED <<current_velocity, dbw_enabled, oneshot, controller, pubs, pc,
                   locals, shutdown, ticks, after_shutdown>>

callback_twist_cmd(msg) ==
    /\ current_command' = Some(msg)
    /\ received' = [received EXCEPT !.twist = Some(msg)]
    /\ UNCHANGED <<current_velocity, dbw_enabled, oneshot, controller, pubs, pc,
                   locals, shutdown, ticks, after_shutdown>>

\* 122-123
callback_current_velocity_calls_control(msg) ==
    /\ current_velocity' = Some(msg)
    /\ received' = [received EXCEPT !.velocity = Some(msg)]
    /\ controller' = Control(parms, controller, linear_target, angular_target,
                             Fin(msg.val), TRUE, LoopPeriod).controller
    /\ UNCHANGED <<current_command, dbw_enabled, oneshot, pubs, pc,
                   locals, shutdown, ticks, after_shutdown>>

callback_current_velocity(msg) ==
    /\ current_velocity' = Some(msg)
    /\ received' = [received EXCEPT !.velocity = Some(msg)]
    /\ UNCHANGED <<current_command, dbw_enabled, oneshot, controller, pubs, pc,
                   locals, shutdown, ticks, after_shutdown>>

\* 125-126
callback_dbw_enabled(data) ==
    /\ dbw_enabled' = data
    /\ UNCHANGED <<current_command, current_velocity, oneshot, controller, pubs,
                   pc, locals, shutdown, ticks, history>>

\* rospy.is_shutdown() turns true.
signal_shutdown ==
    /\ ~shutdown
    /\ shutdown' = TRUE
    /\ UNCHANGED <<node, oneshot, controller, pubs, pc, locals, ticks, history>>

\* 83: while not rospy.is_shutdown()
loop_while_forever ==
    /\ pc = "while"
    /\ ticks < MaxTicks
    /\ pc' = "if"
    /\ UNCHANGED <<node, oneshot, controller, pubs, locals, shutdown, ticks,
                   history>>

loop_while ==
    /\ pc = "while"
    /\ IF shutdown THEN pc' = "done"
       ELSE ticks < MaxTicks /\ pc' = "if"
    /\ UNCHANGED <<node, oneshot, controller, pubs, locals, shutdown, ticks,
                   history>>

\* 84
loop_if_either ==
    /\ pc = "if"
    /\ pc' = IF current_command # None \/ current_velocity # None
             THEN "linear_target" ELSE "sleep"
    /\ UNCHANGED <<node, oneshot, controller, pubs, locals, shutdown, ticks,
                   history>>

loop_if ==
    /\ pc = "if"
    /\ pc' = IF current_command # None /\ current_velocity # None
             THEN "linear_target" ELSE "sleep"
    /\ UNCHANGED <<node, oneshot, controller, pubs, locals, shutdown, ticks,
                   history>>

\* 86; the loop is past the test of line 84, the callbacks never store None.
loop_linear_target ==
    /\ pc = "linear_target"
    /\ linear_target' = current_command[1].linear
    /\ pc' = "angular_target"
    /\ UNCHANGED <<node, oneshot, controller, pubs, angular_target,
                   linear_current, throttle, brake, steering, shutdown, ticks,
                   history>>

\* 87
loop_angular_target ==
    /\ pc = "angular_target"
    /\ angular_target' = current_command[1].angular
    /\ pc' = "linear_current"
    /\ UNCHANGED <<node, oneshot, controller, pubs, linear_target,
                   linear_current, throttle, brake, steering, shutdown, ticks,
                   history>>

\* 88
loop_linear_current ==
    /\ pc = "linear_current"
    /\ linear_current' = current_velocity[1]
    /\ pc' = "control"
    /\ UNCHANGED <<node, oneshot, controller, pubs, linear_target,
                   angular_target, throttle, brake, steering, shutdown, ticks,
                   history>>

\* 89, the assignment of the returned tuple to throttle, brake, steering.
unpack_swapped(result) ==
    [throttle |-> result[1], brake |-> result[3], steering |-> result[2]]

unpack(result) ==
    [throttle |-> result[1], brake |-> result[2], steering |-> result[3]]

\* 89: control() gets the three velocities only.  Neither self.dbw_enabled nor
\* an elapsed time is passed, so what the controller takes for them does not
\* depend on the node's state.  A failing call raises out of loop(): nothing
\* in 81-95 catches it.
loop_control ==
    /\ pc = "control"
    /\ \E enabled \in BOOLEAN, dt \in DtSet :
         LET r == Control(parms, controller, linear_target, angular_target,
                          linear_current, enabled, dt)
         IN  IF r.ok
             THEN /\ throttle' = unpack(r.result).throttle
                  /\ brake' = unpack(r.result).brake
                  /\ steering' = unpack(r.result).steering
                  /\ controller' = r.controller
                  /\ pc' = "publish"
             ELSE /\ pc' = "raised"
                  /\ UNCHANGED <<throttle, brake, steering, controller>>
    /\ after_shutdown' = IF shutdown
                         THEN [after_shutdown EXCEPT !.control = @ + 1]
                         ELSE after_shutdown
    /\ UNCHANGED <<node, oneshot, pubs, linear_target, angular_target,
                   linear_current, shutdown, ticks, received>>

\* 97-117: publish(throttle, brake, steer) as
\* [oneshot, throttle_pub, steer_pub, brake_pub] after the call.
publish_every_throttle(t, b, s) ==
    [oneshot      |-> oneshot,
     throttle_pub |-> IF oneshot = FALSE THEN Publish(throttle_pub, t)
                      ELSE throttle_pub,
     steer_pub    |-> Publish(steer_pub, s),
     brake_pub    |-> brake_pub]

publish_with_brake(t, b, s) ==
    [oneshot      |-> TRUE,
     throttle_pub |-> IF oneshot = FALSE THEN Publish(throttle_pub, t)
                      ELSE throttle_pub,
     steer_pub    |-> Publish(steer_pub, s),
     brake_pub    |-> Publish(brake_pub, b)]

publish(t, b, s) ==
    [oneshot      |-> TRUE,
     throttle_pub |-> IF oneshot = FALSE THEN Publish(throttle_pub, t)
                      ELSE throttle_pub,
     steer_pub    |-> Publish(steer_pub, s),
     brake_pub    |-> brake_pub]

\* 93-94
loop_publish ==
    /\ pc = "publish"
    /\ LET after == publish(throttle, brake, steering)
       IN  /\ oneshot' = after.oneshot
           /\ throttle_pub' = after.throttle_pub
           /\ steer_pub' = after.steer_pub
           /\ brake_pub' = after.brake_pub
    /\ pc' = "sleep"
    /\ after_shutdown' = IF shutdown
                         THEN [after_shutdown EXCEPT !.publish = @ + 1]
                         ELSE after_shutdown
    /\ UNCHANGED <<node, controller, locals, shutdown, ticks, received>>

\* 95
loop_sleep ==
    /\ pc = "sleep"
    /\ pc' = "while"
    /\ ticks' = ticks + 1
    /\ UNCHANGED <<node, oneshot, controller, pubs, locals, shutdown, history>>

Next ==
    \/ \E msg \in TwistMsgs : callback_twist_cmd(msg)
    \/ \E msg \in VelocityMsgs : callback_current_velocity(msg)
    \/ \E data \in BOOLEAN : callback_dbw_enabled(data)
    \/ signal_shutdown
    \/ loop_while
    \/ loop_if
    \/ loop_linear_target
    \/ loop_angular_target
    \/ loop_linear_current
    \/ loop_control
    \/ loop_publish
    \/ loop_sleep

Spec == Init /\ [][Next]_vars

\* 81-95: the steps of loop(), the node's main thread.
loop ==
    \/ loop_while
    \/ loop_if
    \/ loop_linear_target
    \/ loop_angular_target
    \/ loop_linear_current
    \/ loop_control
    \/ loop_publish
    \/ loop_sleep

\* The main thread keeps running: a step of loop() that stays possible is
\* taken (rate.sleep() returns, the interpreter schedules the thread).
SpecFair == Spec /\ WF_vars(loop)

\* ------------------------------------------- PIDController on its own
\* Velocity errors (0.1 m/s) fed to step(); 40 is the largest magnitude the
\* messages above produce.
MaxError == 40

ErrorSet == { -MaxError, -20, -3, 0, 3, 20, MaxError }

\* One PIDController.step(error, dt) call with the limits of parms.  The calls
\* go on without end: the states they reach are finitely many only because
\* the integral stays bounded.
pid_step ==
    /\ \E error \in ErrorSet, dt \in DtSet :
         controller' = [controller EXCEPT
                          !.pid = PIDStep(controller.pid, error, dt,
                                          parms.decel_limit, parms.accel_limit)]
    /\ UNCHANGED <<node, oneshot, pubs, pc, locals, shutdown, ticks, history>>

NextPID == pid_step

SpecPID == Init /\ [][NextPID]_vars

\* --------------------------------------------------------------- claims

\* C1: on every tick at which dbw_enabled is false the output of control()
\* is neutral: throttle = 0 and steer = 0.
C1_NeutralWhenDisabled ==
    [][(pc = "control" /\ pc' = "publish" /\ ~dbw_enabled)
         => (throttle' = 0 /\ steering' = 0)]_vars

\* C2: the throttle and brake values a tick produces are never both non-zero.
C2_ThrottleBrakeExclusive == ~(throttle # 0 /\ brake # 0)

\* A later tick, after the mode was switched on, that brakes.
C2_Witness ==
    /\ ticks >= 1
    /\ dbw_enabled
    /\ pc = "publish"
    /\ brake > 0
    /\ throttle = 0

\* C3: whenever dbw_enabled goes from true to false the PID integral is zero
\* at once.
C3_IntegralResetOnDisable ==
    [][(dbw_enabled /\ ~dbw_enabled') => controller'.pid.integral = 0]_vars

\* C4: every steering value a tick produces, and every steering command
\* published, lies within [-max_steer_angle, max_steer_angle].
C4_SteerWithinLimit ==
    /\ Abs(steering) <= max_steer_angle
    /\ steer_pub.last # None => Abs(steer_pub.last[1]) <= max_steer_angle

\* A published steering command at the limit.
C4_Witness == steer_pub.last = Some(-max_steer_angle)

\* C5: a control() call failing with InvalidInput is not fatal: the loop is
\* never left by it.
C5_InvalidInputNotFatal == pc # "raised"

\* C6: every tick that computed throttle, brake and steering publishes one
\* command on each of the three topics.
C6_AllThreePublished ==
    [][(pc = "publish" /\ pc' = "sleep")
         => /\ throttle_pub'.count = throttle_pub.count + 1
            /\ brake_pub'.count = brake_pub.count + 1
            /\ steer_pub'.count = steer_pub.count + 1]_vars

\* C7: every output of PIDController.step lies within [min_output,
\* max_output], and the integral stays within a bound that does not depend on
\* the number of steps.  An unsaturated step leaves
\* |Ki integral| <= max(|min|, |max|) + Kp |error| + Kd |derivative|.
IntegralBound ==
    Quot((Max(Abs(decel_limit), Abs(accel_limit)) + 1) * GainDen
           + Kp * 100 * MaxError
           + Kd * Quot(1000 * 2 * MaxError, LoopPeriod),
         Ki * 10) + 1

C7_PIDBounded ==
    /\ controller.pid.output >= decel_limit
    /\ controller.pid.output <= accel_limit
    /\ Abs(controller.pid.integral) <= IntegralBound

\* After the ten or more steps it takes to accumulate 40 m, a step at the
\* largest error that saturated at the lower limit.
C7_Witness ==
    /\ controller.pid.integral <= -4000
    /\ controller.pid.prev_error = -MaxError
    /\ controller.pid.output = decel_limit

\* C8: a command is published only on a tick at which dbw_enabled is true.
C8_PublishOnlyWhenEnabled == [][(pubs' # pubs) => dbw_enabled]_vars

C12_ControlOnlyFromLoop ==
    [][controller' # controller => (pc = "control" /\ pc' = "publish")]_vars

\* control() has returned, and a /twist_cmd callback ran between the reads of
\* lines 86-87 and the call.
C12_Witness ==
    /\ pc = "publish"
    /\ controller.lpf.ready
    /\ current_command[1].linear # linear_target

\* C13: until a /twist_cmd and a /current_velocity message have both been
\* received there is no control() call and no publication.
C13_NoTickBeforeBothInputs ==
    (received.twist = None \/ received.velocity = None)
        => /\ controller = ControllerInit
           /\ after_shutdown.control = 0
           /\ throttle_pub = NoPub /\ steer_pub = NoPub /\ brake_pub = NoPub
           /\ pc \in {"while", "if", "sleep", "done"}

\* An iteration has gone by with /twist_cmd received and /current_velocity
\* not.
C13_Witness ==
    /\ ticks >= 1
    /\ pc = "sleep"
    /\ received.twist # None
    /\ received.velocity = None

\* C14: the linear and the angular target passed to one control() call come
\* from the same /twist_cmd message.
C14_TargetsFromOneMessage ==
    pc = "control"
        => \E m \in TwistMsgs : /\ linear_target = m.linear
                                /\ angular_target = m.angular

\* C15: once received, the two stored messages are never None again, and each
\* iteration that finds both calls control() once and publishes one steering
\* command.
C15_EveryIterationPublishes ==
    [][/\ current_command # None => current_command' # None
       /\ current_velocity # None => current_velocity' # None
       /\ (pc = "if" /\ pc' # "if"
             /\ current_command # None /\ current_velocity # None)
            => pc' = "linear_target"
       /\ (pc = "control" /\ pc' # "control") => pc' = "publish"
       /\ (pc = "publish" /\ pc' # "publish")
            => steer_pub'.count = steer_pub.count + 1
       /\ steer_pub' # steer_pub => pc = "publish"]_vars

\* C16: every read of lines 86-88 takes the value of the message received
\* last; the stored message is the one received last, whether or not a tick
\* has used it.
C16_LatestMessageUsed ==
    /\ [](current_command = received.twist
            /\ current_velocity = received.velocity)
    /\ [][/\ (pc = "linear_target" /\ pc' = "angular_target")
               => linear_target' = received.twist[1].linear
          /\ (pc = "angular_target" /\ pc' = "linear_current")
               => angular_target' = received.twist[1].angular
          /\ (pc = "linear_current" /\ pc' = "control")
               => linear_current' = received.velocity[1]]_vars

\* The first tick published the throttle of a 4.0 m/s target; that message
\* was overwritten and a later tick has read the newer one.
C16_Witness ==
    /\ ticks >= 1
    /\ pc = "control"
    /\ throttle_pub.last = Some(1000)
    /\ received.twist = Some([linear |-> Fin(0), angular |-> Fin(-20)])
    /\ linear_target = Fin(0)
    /\ angular_target = Fin(-20)

\* C17: once shutdown is signalled the loop terminates, no iteration starts
\* after the signal, and at most one control() call and one publication (those
\* of the iteration in progress) follow it.
C17_ShutdownStopsLoop ==
    /\ shutdown ~> pc \in {"done", "raised"}
    /\ [](after_shutdown.control <= 1 /\ after_shutdown.publish <= 1)
    /\ [][(shutdown /\ pc = "while") => pc' \in {"while", "done"}]_vars

\* The loop has ended after the iteration in progress at the signal called
\* control() and published.
C17_Witness ==
    /\ pc = "done"
    /\ after_shutdown.control = 1
    /\ after_shutdown.publish = 1

====
